---- MODULE Spec2Model ----
(***************************************************************************)
(* Model of src/src/main.rs: the YouTubeDownloader application state, the  *)
(* egui frame (update), start_download with its worker thread, the stdout  *)
(* reader thread, the child process it supervises, and parse_progress.     *)
(*                                                                         *)
(* Text is modelled as TLA+ strings, inspected character by character.     *)
(* An f32 is modelled by the bit fields of its binary32 encoding, and      *)
(* str::parse::<f32> as the correctly rounded conversion of the decimal.   *)
(***************************************************************************)
EXTENDS Integers, Sequences, FiniteSets, TLC

(***************************************************************************)
(* Text helpers (str::contains, ends_with, trim_end_matches,               *)
(* split_whitespace).                                                      *)
(***************************************************************************)

Contains(s, p) ==
    \E i \in 1..(Len(s) - Len(p) + 1) : SubSeq(s, i, i + Len(p) - 1) = p

EndsWith(s, c) == Len(s) >= 1 /\ SubSeq(s, Len(s), Len(s)) = c

TrimEndMatches[s \in STRING, c \in STRING] ==
    IF EndsWith(s, c) THEN TrimEndMatches[SubSeq(s, 1, Len(s) - 1), c] ELSE s

\* char::is_whitespace: the characters with the Unicode White_Space
\* property.  Those a string of the module can hold are listed: U+0009 to
\* U+000D, U+0020, U+0085, U+00A0 and U+1680; the others (U+2000 to U+200A,
\* U+2028, U+2029, U+202F, U+205F, U+3000) cannot be written in a string.
IsWhitespace(c) ==
    c \in {" ", "\t", "\n", "\r", "\f", "", "", " ", " "}

\* Index of the first character of s at or after i that is (want = TRUE) or
\* is not (want = FALSE) whitespace; Len(s) + 1 when there is none.
Scan[s \in STRING, i \in Nat, want \in BOOLEAN] ==
    IF i > Len(s) THEN Len(s) + 1
    ELSE IF IsWhitespace(SubSeq(s, i, i)) = want THEN i
    ELSE Scan[s, i + 1, want]

SplitFrom[s \in STRING, i \in Nat] ==
    LET b == Scan[s, i, FALSE]
        e == Scan[s, b, TRUE]
    IN  IF b > Len(s) THEN << >>
        ELSE <<SubSeq(s, b, e - 1)>> \o SplitFrom[s, e]

SplitWhitespace(s) == SplitFrom[s, 1]

(***************************************************************************)
(* str::parse::<f32>.  The grammar of core::num::dec2flt:                  *)
(*   Float  ::= Sign? ( 'inf' | 'infinity' | 'nan' | Number )              *)
(*   Number ::= ( Digit+ | Digit+ '.' Digit* | Digit* '.' Digit+ ) Exp?    *)
(*   Exp    ::= 'e' Sign? Digit+          (letters in either case)         *)
(***************************************************************************)

Some(v) == [some |-> TRUE, val |-> v]
None == [some |-> FALSE, val |-> 0]

Digits == <<"0", "1", "2", "3", "4", "5", "6", "7", "8", "9">>

IsDigit(c) == \E d \in 1..10 : Digits[d] = c

DigitVal(c) == (CHOOSE d \in 1..10 : Digits[d] = c) - 1

AllDigits(s) == \A i \in 1..Len(s) : IsDigit(SubSeq(s, i, i))

DecVal[s \in STRING] ==
    IF Len(s) = 0 THEN 0
    ELSE 10 * DecVal[SubSeq(s, 1, Len(s) - 1)] + DigitVal(SubSeq(s, Len(s), Len(s)))

Pow10[n \in Int] == IF n <= 0 THEN 1 ELSE 10 * Pow10[n - 1]

\* Index of the first character of s that is in set cs; Len(s) + 1 if none.
FindChar[s \in STRING, i \in Nat, cs \in SUBSET STRING] ==
    IF i > Len(s) THEN Len(s) + 1
    ELSE IF SubSeq(s, i, i) \in cs THEN i
    ELSE FindChar[s, i + 1, cs]

LowerChar(c) ==
    CASE c = "I" -> "i" [] c = "N" -> "n" [] c = "F" -> "f" [] c = "T" -> "t"
      [] c = "Y" -> "y" [] c = "A" -> "a" [] OTHER -> c

Lower[s \in STRING] ==
    IF Len(s) = 0 THEN "" ELSE LowerChar(Head(s)) \o Lower[Tail(s)]

HasSign(s) == Len(s) >= 1 /\ Head(s) \in {"+", "-"}

(***************************************************************************)
(* f32.  A value is held as the three bit fields of its IEEE 754 binary32  *)
(* encoding: sign (1 bit), exp (8 bits, biased by 127) and frac (23 bits). *)
(***************************************************************************)

F32(sign, exp, frac) == [sign |-> sign, exp |-> exp, frac |-> frac]

F32Zero(sign) == F32(sign, 0, 0)

F32Inf(sign) == F32(sign, 255, 0)

F32NaN(sign) == F32(sign, 255, 2^22)

\* Mutation of RoundUp: the conversion truncates.
RoundUpNever(q, c) == FALSE

\* Round to nearest, ties to even: whether the significand q is incremented,
\* c being the comparison (-1, 0, 1) of the discarded part with half a unit.
RoundUp(q, c) == c = 1 \/ (c = 0 /\ q % 2 = 1)

\* The encoding of q * 2^e, q a rounded significand (q <= 2^24, and q < 2^23
\* only for e = -149, a subnormal).
F32Pack(sign, q, e) ==
    LET qq == IF q = 2^24 THEN 2^23 ELSE q
        ee == IF q = 2^24 THEN e + 1 ELSE e
    IN  IF qq < 2^23 THEN F32(sign, 0, qq)
        ELSE IF ee + 150 >= 255 THEN F32Inf(sign)
        ELSE F32(sign, ee + 150, qq - 2^23)

Compare(a, b) == IF a < b THEN 0 - 1 ELSE IF a = b THEN 0 ELSE 1

\* n / m for machine-size n and m: (q + r/m) * 2^e with more binary digits
\* taken into q until it has 24 bits.
NormSmall[q \in Nat, r \in Nat, m \in Nat, e \in Int] ==
    IF q >= 2^23 THEN [q |-> q, num |-> r, den |-> m, e |-> e]
    ELSE IF 2 * r >= m THEN NormSmall[2 * q + 1, 2 * r - m, m, e - 1]
    ELSE NormSmall[2 * q, 2 * r, m, e - 1]

\* (q + num/den) * 2^e with binary digits dropped from q until it has 24 bits.
ShrSmall[q \in Nat, num \in Nat, den \in Nat, e \in Int] ==
    IF q < 2^24 THEN [q |-> q, num |-> num, den |-> den, e |-> e]
    ELSE ShrSmall[q \div 2, (q % 2) * den + num, 2 * den, e + 1]

RoundSmall(sign, n, m) ==
    LET s == NormSmall[n \div m, n % m, m, 0]
        t == ShrSmall[s.q, s.num, s.den, s.e]
        c == Compare(2 * t.num, t.den)
    IN  F32Pack(sign, IF RoundUp(t.q, c) THEN t.q + 1 ELSE t.q, t.e)

\* Natural numbers of any size: the sequence of their base-10000 digits,
\* the least significant first, the last one not 0.
Limb == 10000

BigOfDigits[s \in STRING] ==
    IF Len(s) <= 4 THEN (IF DecVal[s] = 0 THEN << >> ELSE <<DecVal[s]>>)
    ELSE <<DecVal[SubSeq(s, Len(s) - 3, Len(s))]>>
            \o BigOfDigits[SubSeq(s, 1, Len(s) - 4)]

BigMulSmall[a \in Seq(Nat), k \in Nat, c \in Nat] ==
    IF Len(a) = 0 THEN (IF c = 0 THEN << >> ELSE <<c>>)
    ELSE <<(Head(a) * k + c) % Limb>>
            \o BigMulSmall[Tail(a), k, (Head(a) * k + c) \div Limb]

BigMulPow2[a \in Seq(Nat), k \in Nat] ==
    IF k = 0 THEN a
    ELSE IF k >= 13 THEN BigMulPow2[BigMulSmall[a, 2^13, 0], k - 13]
    ELSE BigMulSmall[a, 2^k, 0]

BigMulPow10[a \in Seq(Nat), k \in Nat] ==
    IF k = 0 THEN a
    ELSE IF k >= 4 THEN BigMulPow10[<<0>> \o a, k - 4]
    ELSE BigMulSmall[a, Pow10[k], 0]

BigCmp[a \in Seq(Nat), b \in Seq(Nat)] ==
    IF Len(a) # Len(b) THEN Compare(Len(a), Len(b))
    ELSE IF Len(a) = 0 THEN 0
    ELSE IF a[Len(a)] # b[Len(b)] THEN Compare(a[Len(a)], b[Len(b)])
    ELSE BigCmp[SubSeq(a, 1, Len(a) - 1), SubSeq(b, 1, Len(b) - 1)]

BigTrim[a \in Seq(Nat)] ==
    IF Len(a) = 0 \/ a[Len(a)] # 0 THEN a ELSE BigTrim[SubSeq(a, 1, Len(a) - 1)]

\* a - b - borrow, for a >= b + borrow, digit by digit.
BigSubFrom[a \in Seq(Nat), b \in Seq(Nat), borrow \in Nat] ==
    IF Len(a) = 0 THEN << >>
    ELSE LET y == (IF Len(b) = 0 THEN 0 ELSE Head(b)) + borrow
             bt == IF Len(b) = 0 THEN << >> ELSE Tail(b)
         IN  IF Head(a) >= y
             THEN <<Head(a) - y>> \o BigSubFrom[Tail(a), bt, 0]
             ELSE <<Head(a) + Limb - y>> \o BigSubFrom[Tail(a), bt, 1]

BigSub(a, b) == BigTrim[BigSubFrom[a, b, 0]]

\* The divisor b doubled, and e raised, until a / b < 2^24.
BigScale[a \in Seq(Nat), b \in Seq(Nat), e \in Int] ==
    IF BigCmp[a, BigMulPow2[b, 24]] >= 0
    THEN BigScale[a, BigMulSmall[b, 2, 0], e + 1]
    ELSE [b |-> b, e |-> e]

\* Quotient and remainder of a by b, the quotient's binary digits from
\* `bit` down added to q.
BigDiv[a \in Seq(Nat), b \in Seq(Nat), bit \in Int, q \in Nat] ==
    IF bit < 0 THEN [q |-> q, r |-> a]
    ELSE IF BigCmp[a, BigMulPow2[b, bit]] >= 0
    THEN BigDiv[BigSub(a, BigMulPow2[b, bit]), b, bit - 1, q + 2^bit]
    ELSE BigDiv[a, b, bit - 1, q]

\* The f32 nearest to d * 10^e10, d a digit string without leading zeros.
RoundBig(sign, d, e10) ==
    LET p  == Len(d) + e10
        lb == IF p >= 1 THEN ((p - 1) * 33219) \div 10000
              ELSE 0 - (((1 - p) * 33220 + 9999) \div 10000)
        e0 == IF lb - 23 < 0 - 149 THEN 0 - 149 ELSE lb - 23
        n  == BigMulPow10[BigOfDigits[d], IF e10 > 0 THEN e10 ELSE 0]
        m  == BigMulPow10[<<1>>, IF e10 < 0 THEN 0 - e10 ELSE 0]
        a  == BigMulPow2[n, IF e0 < 0 THEN 0 - e0 ELSE 0]
        s  == BigScale[a, BigMulPow2[m, IF e0 > 0 THEN e0 ELSE 0], e0]
        qr == BigDiv[a, s.b, 23, 0]
        c  == BigCmp[BigMulSmall[qr.r, 2, 0], s.b]
    IN  IF p > 39 THEN F32Inf(sign)
        ELSE IF p < 0 - 45 THEN F32Zero(sign)
        ELSE F32Pack(sign, IF RoundUp(qr.q, c) THEN qr.q + 1 ELSE qr.q, s.e)

StripLeadingZeros[s \in STRING] ==
    IF Len(s) >= 1 /\ Head(s) = "0" THEN StripLeadingZeros[Tail(s)] ELSE s

StripTrailingZeros[s \in STRING] ==
    IF EndsWith(s, "0") THEN StripTrailingZeros[SubSeq(s, 1, Len(s) - 1)] ELSE s

\* The exponent digits taken from the left: a digit is taken while the value
\* so far is below 2^16, and the digits after that are skipped, so the value
\* is exact up to 655359.
ExpAcc[s \in STRING, acc \in Nat] ==
    IF Len(s) = 0 THEN acc
    ELSE ExpAcc[Tail(s), IF acc < 2^16 THEN 10 * acc + DigitVal(Head(s)) ELSE acc]

ExpVal(s) == ExpAcc[s, 0]

\* The f32 nearest to the decimal with mantissa digits m (the decimal point
\* removed) and decimal exponent e10.
RoundDecimal(sign, m, e10) ==
    LET lead == StripLeadingZeros[m]
        d    == StripTrailingZeros[lead]
        e    == e10 + (Len(lead) - Len(d))
        up   == IF e > 0 THEN e ELSE 0
        down == IF e < 0 THEN 0 - e ELSE 0
    IN  IF Len(d) = 0 THEN F32Zero(sign)
        ELSE IF Len(d) + up <= 9 /\ down <= 9
        THEN RoundSmall(sign, DecVal[d] * Pow10[up], Pow10[down])
        ELSE RoundBig(sign, d, e)

ParseF32[s \in STRING] ==
    LET neg  == HasSign(s) /\ Head(s) = "-"
        sign == IF neg THEN 1 ELSE 0
        body == IF HasSign(s) THEN Tail(s) ELSE s
        ePos == FindChar[body, 1, {"e", "E"}]
        mant == SubSeq(body, 1, ePos - 1)
        hasE == ePos <= Len(body)
        expo == SubSeq(body, ePos + 1, Len(body))
        eNeg == HasSign(expo) /\ Head(expo) = "-"
        eDig == IF HasSign(expo) THEN Tail(expo) ELSE expo
        dot  == FindChar[mant, 1, {"."}]
        ip   == SubSeq(mant, 1, dot - 1)
        fp   == SubSeq(mant, dot + 1, Len(mant))
        okM  == AllDigits(ip) /\ AllDigits(fp) /\ Len(ip) + Len(fp) >= 1
        okE  == ~hasE \/ (Len(eDig) >= 1 /\ AllDigits(eDig))
        ev   == IF hasE THEN (IF eNeg THEN 0 - ExpVal(eDig) ELSE ExpVal(eDig)) ELSE 0
    IN  IF Lower[body] \in {"inf", "infinity"} THEN Some(F32Inf(sign))
        ELSE IF Lower[body] = "nan" THEN Some(F32NaN(sign))
        ELSE IF okM /\ okE THEN Some(RoundDecimal(sign, ip \o fp, ev - Len(fp)))
        ELSE None

(***************************************************************************)
(* parse_progress (main.rs 313-341).                                       *)
(***************************************************************************)

\* The f32 literals 99.0 (line 318), 99.5 (line 323), 100.0 (lines 294 and
\* 300) and 0.0 (lines 51 and 166).
MergePercent == F32(0, 133, 4587520)
FfmpegPercent == F32(0, 133, 4653056)
FullPercent == F32(0, 133, 4718592)
ZeroPercent == F32(0, 0, 0)

\* 50.0 and 45.2, the f32 values of the percentages in the downloader's
\* lines "[download]  50.0% ..." and "[download]  45.2% ...".
FiftyPercent == F32(0, 132, 4718592)
DownloadPercent == F32(0, 132, 3460301)

\* The comparisons of f32: a <= b.
F32IsNaN(a) == a.exp = 255 /\ a.frac # 0

F32IsZero(a) == a.exp = 0 /\ a.frac = 0

F32MagLess(a, b) == a.exp < b.exp \/ (a.exp = b.exp /\ a.frac < b.frac)

F32Le(a, b) ==
    /\ ~F32IsNaN(a) /\ ~F32IsNaN(b)
    /\ \/ F32IsZero(a) /\ F32IsZero(b)
       \/ a.sign = 1 /\ b.sign = 0
       \/ a.sign = 0 /\ b.sign = 0 /\ ~F32MagLess(b, a)
       \/ a.sign = 1 /\ b.sign = 1 /\ ~F32MagLess(a, b)

\* The loop over the tokens (lines 329-337): the first one that ends in '%'
\* and whose prefix parses.
FirstPercent[parts \in Seq(STRING)] ==
    IF Len(parts) = 0 THEN None
    ELSE LET part == Head(parts)
             r    == ParseF32[TrimEndMatches[part, "%"]]
         IN  IF EndsWith(part, "%") /\ r.some THEN r
             ELSE FirstPercent[Tail(parts)]

\* Mutations of parse_progress: a line without a percentage yields 0.0; the
\* [download] percentage is looked for before the [ffmpeg] marker.
parse_progress_or_zero(line) ==
    IF Contains(line, "[Merger]") \/ Contains(line, "Merging formats into")
    THEN Some(MergePercent)
    ELSE IF Contains(line, "[ffmpeg]") THEN Some(FfmpegPercent)
    ELSE IF Contains(line, "[download]") /\ Contains(line, "%")
              /\ FirstPercent[SplitWhitespace(line)].some
    THEN FirstPercent[SplitWhitespace(line)]
    ELSE Some(ZeroPercent)

parse_progress_download_first(line) ==
    IF Contains(line, "[Merger]") \/ Contains(line, "Merging formats into")
    THEN Some(MergePercent)
    ELSE IF Contains(line, "[download]") /\ Contains(line, "%")
    THEN FirstPercent[SplitWhitespace(line)]
    ELSE IF Contains(line, "[ffmpeg]") THEN Some(FfmpegPercent)
    ELSE None

parse_progress(line) ==
    IF Contains(line, "[Merger]") \/ Contains(line, "Merging formats into")
    THEN Some(MergePercent)
    ELSE IF Contains(line, "[ffmpeg]") THEN Some(FfmpegPercent)
    ELSE IF Contains(line, "[download]") /\ Contains(line, "%")
    THEN FirstPercent[SplitWhitespace(line)]
    ELSE None

\* The status phrase the stdout reader publishes for a line (main.rs 256-265).
StatusPhrase(line) ==
    IF Contains(line, "[Merger]") THEN Some("Merging audio and video...")
    ELSE IF Contains(line, "[ExtractAudio]") THEN Some("Extracting audio...")
    ELSE IF Contains(line, "[ffmpeg]") /\ Contains(line, "Merging")
    THEN Some("Merging streams...")
    ELSE IF Contains(line, "[ffmpeg]") /\ Contains(line, "Converting")
    THEN Some("Converting to MP4...")
    ELSE None

(***************************************************************************)
(* Bounds and the environment's alphabets.                                 *)
(***************************************************************************)

\* Download attempts (worker threads) in one behaviour.
MaxRuns == 2
\* Lines a child writes over both streams.
MaxLines == 2
\* Lines a pipe holds before a write to it blocks.
PipeCap == 1

Runs == 1..MaxRuns

Urls == {"", "https://youtu.be/v"}

StdoutLines ==
    { "[download]  50.0% of 10.00MiB at 1.00MiB/s ETA 00:05",
      "[download] 150% of ~1.00MiB",
      "[Merger] Merging formats into \"x.mp4\"" }

StderrLines ==
    { "ERROR: network unreachable",
      "ERROR: Video unavailable",
      "WARNING: error in fragment" }

ExitCodes == {0, 1}

\* Display texts of the std::io::Error values the OS calls may return.
FsErrors == {"Access is denied. (os error 5)"}
SpawnErrors == {"program not found"}
WaitErrors == {"No child processes (os error 10)"}

\* The three embedded executables, in extraction order (main.rs 174-176).
Executables == <<"yt-dlp", "deno", "ffmpeg">>

(***************************************************************************)
(* State.                                                                  *)
(***************************************************************************)

VARIABLES
    url,            \* YouTubeDownloader.url (the text field)
    status,         \* *status.lock()
    progress,       \* *progress.lock()
    is_downloading, \* *is_downloading.lock()
    ui_pc,          \* position of the UI thread inside update/start_download
    f_progress,     \* update's local `progress` (line 118)
    f_status,       \* update's local `status` (line 121)
    f_downloading,  \* update's local `is_downloading` (line 122)
    nruns,          \* worker threads spawned so far
    files,          \* executables present in the temp directory
    wpc,            \* wpc[w]: position of worker thread w
    wmsg,           \* wmsg[w]: the Err text the worker is about to publish
    wres,           \* wres[w]: the branch of `match child.wait()` taken
    has_error,      \* has_error[w] (line 272)
    error_message,  \* error_message[w] (line 273)
    rpc,            \* rpc[w]: position of w's stdout reader thread
    rline,          \* rline[w]: the line the reader is processing
    child,          \* child[w]: the process w spawned
    outpipe,        \* outpipe[w]: lines written to stdout and not yet read
    errpipe,        \* errpipe[w]: lines written to stderr and not yet read
    sets,           \* sets[w]: writes of true to the flag made for run w
    clears,         \* clears[w]: writes of false to the flag made by worker w
    seen,           \* seen[w]: history of the stderr lines worker w has read
    lastpct,        \* lastpct[w]: progress when w published its terminal status
    outcome         \* how the last run ended, until the next click

shared == <<status, progress, is_downloading>>
uiv == <<url, ui_pc, f_progress, f_status, f_downloading>>
workerv == <<wpc, wmsg, wres, has_error, error_message>>
readerv == <<rpc, rline>>
childv == <<child, outpipe, errpipe>>
ghostv == <<sets, clears>>
histv == <<seen, lastpct, outcome>>
vars == <<shared, uiv, nruns, files, workerv, readerv, childv, ghostv, histv>>

\* outcome: the branch the last run ended in, the stderr lines it had read,
\* the progress it found when it published its terminal status, and the
\* exit of its child.
NoOutcome == [res |-> "none", log |-> << >>, pct |-> ZeroPercent, exited |-> FALSE,
              code |-> 0]

NoChild == [state |-> "none", out_open |-> FALSE, err_open |-> FALSE,
            written |-> 0, pending |-> <<>>, code |-> 0]

Init ==
    /\ url = ""
    /\ status = "Ready"
    /\ progress = ZeroPercent
    /\ is_downloading = FALSE
    /\ ui_pc = "idle"
    /\ f_progress = ZeroPercent
    /\ f_status = ""
    /\ f_downloading = FALSE
    /\ nruns = 0
    /\ files = {}
    /\ wpc = [w \in Runs |-> "unborn"]
    /\ wmsg = [w \in Runs |-> ""]
    /\ wres = [w \in Runs |-> "none"]
    /\ has_error = [w \in Runs |-> FALSE]
    /\ error_message = [w \in Runs |-> ""]
    /\ rpc = [w \in Runs |-> "unborn"]
    /\ rline = [w \in Runs |-> ""]
    /\ child = [w \in Runs |-> NoChild]
    /\ outpipe = [w \in Runs |-> << >>]
    /\ errpipe = [w \in Runs |-> << >>]
    /\ sets = [w \in Runs |-> 0]
    /\ clears = [w \in Runs |-> 0]
    /\ seen = [w \in Runs |-> << >>]
    /\ lastpct = [w \in Runs |-> ZeroPercent]
    /\ outcome = NoOutcome

(***************************************************************************)
(* The UI thread: eframe::App::update (main.rs 85-149) and start_download  *)
(* up to thread::spawn (main.rs 153-170).  One step per lock acquisition.  *)
(***************************************************************************)

\* The frame begins: the text field holds what the user has typed (line
\* 93, a write to the UI thread's own url), then progress is read (line 118).
UiReadProgress ==
    /\ ui_pc = "idle"
    /\ \E u \in Urls : url' = u
    /\ f_progress' = progress
    /\ ui_pc' = "read_status"
    /\ UNCHANGED <<shared, f_status, f_downloading, nruns, files,
                   workerv, readerv, childv, ghostv, histv>>

\* line 121
UiReadStatus ==
    /\ ui_pc = "read_status"
    /\ f_status' = status
    /\ ui_pc' = "read_flag"
    /\ UNCHANGED <<shared, url, f_progress, f_downloading, nruns, files,
                   workerv, readerv, childv, ghostv, histv>>

\* line 122
UiReadFlag ==
    /\ ui_pc = "read_flag"
    /\ f_downloading' = is_downloading
    /\ ui_pc' = "button"
    /\ UNCHANGED <<shared, url, f_progress, f_status, nruns, files,
                   workerv, readerv, childv, ghostv, histv>>

\* Mutation of ButtonEnabled: the button ignores the flag.
ButtonAlwaysEnabled(flag) == TRUE

\* add_enabled(!is_downloading, ...) (line 126)
ButtonEnabled(flag) == ~flag

\* The frame's locals after update has returned.
EndFrame ==
    /\ ui_pc' = "idle"
    /\ f_progress' = ZeroPercent
    /\ f_status' = ""
    /\ f_downloading' = FALSE

\* The button is not clicked (lines 125-130); the bar and the label are drawn
\* from the frame's locals (lines 135-144), the flag is read once more for
\* the repaint request (line 146), and update returns.
UiNoClick ==
    /\ ui_pc = "button"
    /\ EndFrame
    /\ UNCHANGED <<shared, url, nruns, files, workerv, readerv, childv,
                   ghostv, histv>>

\* Mutation of UrlIsEmpty: start_download does not check the URL.
UrlNeverEmpty(u) == FALSE

\* url.is_empty() (line 156)
UrlIsEmpty(u) == u = ""

\* The button is clicked while the text field is empty: start_download
\* lines 154-159, then the rest of the frame.
UiClickEmpty ==
    /\ ui_pc = "button"
    /\ ButtonEnabled(f_downloading)
    /\ UrlIsEmpty(url)
    /\ status' = "Please enter a URL"
    /\ outcome' = NoOutcome
    /\ EndFrame
    /\ UNCHANGED <<progress, is_downloading, url, nruns, files, workerv,
                   readerv, childv, ghostv, seen, lastpct>>

\* The button is clicked while the text field holds a URL: start_download
\* lines 154-166, up to the progress reset.
UiClickStart ==
    /\ ui_pc = "button"
    /\ ButtonEnabled(f_downloading)
    /\ nruns < MaxRuns
    /\ ~UrlIsEmpty(url)
    /\ progress' = ZeroPercent
    /\ outcome' = NoOutcome
    /\ ui_pc' = "sd_flag"
    /\ UNCHANGED <<status, is_downloading, url, f_progress, f_status,
                   f_downloading, nruns, files, workerv, readerv, childv,
                   ghostv, seen, lastpct>>

\* line 167
SdSetFlag ==
    /\ ui_pc = "sd_flag"
    /\ is_downloading' = TRUE
    /\ sets' = [sets EXCEPT ![nruns + 1] = @ + 1]
    /\ ui_pc' = "sd_status"
    /\ UNCHANGED <<status, progress, url, f_progress, f_status, f_downloading,
                   nruns, files, workerv, readerv, childv, clears, histv>>

\* line 168
SdSetStatus ==
    /\ ui_pc = "sd_status"
    /\ status' = "Starting download..."
    /\ ui_pc' = "sd_spawn"
    /\ UNCHANGED <<progress, is_downloading, url, f_progress, f_status,
                   f_downloading, nruns, files, workerv, readerv, childv,
                   ghostv, histv>>

\* thread::spawn (line 170); start_download returns and the frame ends as
\* in UiNoClick.
SdSpawn ==
    /\ ui_pc = "sd_spawn"
    /\ nruns' = nruns + 1
    /\ wpc' = [wpc EXCEPT ![nruns + 1] = "preparing"]
    /\ EndFrame
    /\ UNCHANGED <<shared, url, files, wmsg, wres, has_error, error_message,
                   readerv, childv, ghostv, histv>>

(***************************************************************************)
(* The worker thread: the closure of thread::spawn (main.rs 170-309).      *)
(***************************************************************************)

ExtractPc == <<"extract_ytdlp", "extract_deno", "extract_ffmpeg">>

\* line 171
WorkerPrepare(w) ==
    /\ wpc[w] = "preparing"
    /\ status' = "Preparing..."
    /\ wpc' = [wpc EXCEPT ![w] = ExtractPc[1]]
    /\ UNCHANGED <<progress, is_downloading, uiv, nruns, files, wmsg, wres,
                   has_error, error_message, readerv, childv, ghostv, histv>>

\* The position after the i-th extraction succeeded.
AfterExtract(i) == IF i < Len(ExtractPc) THEN ExtractPc[i + 1] ELSE "downloading"

\* extract_file (lines 179-186) for the i-th executable, and the `if let
\* Err(e)` around it (lines 189, 196, 203).  A failed fs::write may or may
\* not leave the file behind.
WorkerExtract(w, i) ==
    /\ wpc[w] = ExtractPc[i]
    /\ LET name == Executables[i] IN
       \/ /\ name \in files
          /\ wpc' = [wpc EXCEPT ![w] = AfterExtract(i)]
          /\ UNCHANGED <<files, wmsg>>
       \/ /\ name \notin files
          /\ files' = files \cup {name}
          /\ wpc' = [wpc EXCEPT ![w] = AfterExtract(i)]
          /\ UNCHANGED wmsg
       \/ /\ name \notin files
          /\ \E e \in FsErrors :
               wmsg' = [wmsg EXCEPT ![w] = "Failed to extract " \o name \o ": " \o e]
          /\ \E left \in BOOLEAN :
               files' = IF left THEN files \cup {name} ELSE files
          /\ wpc' = [wpc EXCEPT ![w] = "err_status"]
    /\ UNCHANGED <<shared, uiv, nruns, wres, has_error, error_message,
                   readerv, childv, ghostv, histv>>

\* Mutation of AfterErrStatus: an early return that forgets the flag.
AfterErrStatusNoClear == "done"

\* The position after the Err text was published on an early return: the
\* flag is cleared next (lines 191, 198, 205, 235).
AfterErrStatus == "err_clear"

\* lines 190, 197, 204, 234
WorkerErrStatus(w) ==
    /\ wpc[w] = "err_status"
    /\ status' = wmsg[w]
    /\ wpc' = [wpc EXCEPT ![w] = AfterErrStatus]
    /\ UNCHANGED <<progress, is_downloading, uiv, nruns, files, wmsg, wres,
                   has_error, error_message, readerv, childv, ghostv, histv>>

\* How an early return is recorded: an extraction failure or a launch failure.
EarlyOutcome(msg) ==
    IF Contains(msg, "Failed to extract") THEN "extract" ELSE "launch"

\* lines 191-192, 198-199, 205-206, 235-236: clear the flag and return.
WorkerErrClear(w) ==
    /\ wpc[w] = "err_clear"
    /\ is_downloading' = FALSE
    /\ clears' = [clears EXCEPT ![w] = @ + 1]
    /\ outcome' = [NoOutcome EXCEPT !.res = EarlyOutcome(wmsg[w]),
                                    !.pct = progress]
    /\ wpc' = [wpc EXCEPT ![w] = "done"]
    /\ wmsg' = [wmsg EXCEPT ![w] = ""]
    /\ UNCHANGED <<status, progress, uiv, nruns, files, wres, has_error,
                   error_message, readerv, childv, sets, seen, lastpct>>

\* line 209
WorkerDownloading(w) ==
    /\ wpc[w] = "downloading"
    /\ status' = "Downloading..."
    /\ wpc' = [wpc EXCEPT ![w] = "spawn"]
    /\ UNCHANGED <<progress, is_downloading, uiv, nruns, files, wmsg, wres,
                   has_error, error_message, readerv, childv, ghostv, histv>>

\* Mutations of AfterSpawnErr: the launch is tried again; the flag is
\* cleared without the Err text being published.
AfterSpawnErrRetry == "spawn"

AfterSpawnErrSilent == "err_clear"

\* The position after Command::spawn returned Err: the text is published
\* next (line 234).
AfterSpawnErr == "err_status"

\* Command::spawn (lines 212-238).
WorkerSpawn(w) ==
    /\ wpc[w] = "spawn"
    /\ \/ /\ child' = [child EXCEPT ![w] =
                         [state |-> "running", out_open |-> TRUE, err_open |-> TRUE,
                          written |-> 0, pending |-> << >>, code |-> 0]]
          /\ wpc' = [wpc EXCEPT ![w] = "start_reader"]
          /\ UNCHANGED wmsg
       \/ /\ \E e \in SpawnErrors :
               wmsg' = [wmsg EXCEPT ![w] = "Failed to start yt-dlp: " \o e]
          /\ wpc' = [wpc EXCEPT ![w] = AfterSpawnErr]
          /\ UNCHANGED child
    /\ UNCHANGED <<shared, uiv, nruns, files, wres, has_error, error_message,
                   readerv, outpipe, errpipe, ghostv, histv>>

\* thread::spawn of the stdout reader (lines 245-246); has_error and
\* error_message start as false and "" (lines 272-273).
WorkerStartReader(w) ==
    /\ wpc[w] = "start_reader"
    /\ rpc' = [rpc EXCEPT ![w] = "read"]
    /\ wpc' = [wpc EXCEPT ![w] = "stderr"]
    /\ UNCHANGED <<shared, uiv, nruns, files, wmsg, wres, has_error,
                   error_message, rline, childv, ghostv, histv>>

\* Mutation of IsFatalLine: the marker is matched in either case.
IsFatalLineAnyCase(line) == Contains(line, "ERROR") \/ Contains(line, "error")

\* Whether a stderr line is kept as the failure explanation (line 279).
IsFatalLine(line) == Contains(line, "ERROR")

\* One iteration of the stderr loop (lines 276-284).
WorkerReadStderr(w) ==
    /\ wpc[w] = "stderr"
    /\ errpipe[w] # << >>
    /\ LET line == Head(errpipe[w]) IN
       /\ errpipe' = [errpipe EXCEPT ![w] = Tail(@)]
       /\ seen' = [seen EXCEPT ![w] = Append(@, line)]
       /\ IF IsFatalLine(line)
          THEN /\ has_error' = [has_error EXCEPT ![w] = TRUE]
               /\ error_message' = [error_message EXCEPT ![w] = line]
          ELSE UNCHANGED <<has_error, error_message>>
    /\ UNCHANGED <<shared, uiv, nruns, files, wpc, wmsg, wres, readerv,
                   child, outpipe, ghostv, lastpct, outcome>>

\* The stderr loop ends at end-of-stream.
WorkerStderrEof(w) ==
    /\ wpc[w] = "stderr"
    /\ errpipe[w] = << >>
    /\ ~child[w].err_open
    /\ wpc' = [wpc EXCEPT ![w] = "join"]
    /\ UNCHANGED <<shared, uiv, nruns, files, wmsg, wres, has_error,
                   error_message, readerv, childv, ghostv, histv>>

\* Mutation of JoinReady: the worker does not join the reader.
JoinNotAwaited(w) == TRUE

\* stdout_handle.join() returns once the reader thread has finished (line 287).
JoinReady(w) == rpc[w] = "done"

WorkerJoin(w) ==
    /\ wpc[w] = "join"
    /\ JoinReady(w)
    /\ wpc' = [wpc EXCEPT ![w] = "wait"]
    /\ UNCHANGED <<shared, uiv, nruns, files, wmsg, wres, has_error,
                   error_message, readerv, childv, ghostv, histv>>

\* The branch of lines 291-301 for an exit status.
ExitBranch(code, err) ==
    IF code = 0 THEN "success" ELSE IF err THEN "failed" ELSE "warnings"

\* child.wait() (line 290): Ok once the child has exited, or an OS error.
WorkerWait(w) ==
    /\ wpc[w] = "wait"
    /\ \/ /\ child[w].state = "exited"
          /\ wres' = [wres EXCEPT ![w] = ExitBranch(child[w].code, has_error[w])]
          /\ UNCHANGED wmsg
       \/ /\ \E e \in WaitErrors :
               wmsg' = [wmsg EXCEPT ![w] = "Process error: " \o e]
          /\ wres' = [wres EXCEPT ![w] = "waiterr"]
    /\ wpc' = [wpc EXCEPT ![w] = "term_status"]
    /\ UNCHANGED <<shared, uiv, nruns, files, has_error, error_message,
                   readerv, childv, ghostv, histv>>

\* The status each branch publishes (lines 293, 296, 299, 304).
TermStatus(res, errmsg, msg) ==
    CASE res = "success"  -> "Download complete!"
      [] res = "failed"   -> "Download failed: " \o errmsg
      [] res = "warnings" -> "Download completed with warnings"
      [] OTHER            -> msg

\* Mutations of ForcesProgress: one of the two branches forgets progress;
\* every branch sets it.
ForcesProgressOnWarningsOnly(res) == res = "warnings"

ForcesProgressAlways(res) == TRUE

ForcesProgressOnSuccessOnly(res) == res = "success"

\* The branches that set progress to 100.0 (lines 294, 300).
ForcesProgress(res) == res \in {"success", "warnings"}

WorkerTermStatus(w) ==
    /\ wpc[w] = "term_status"
    /\ status' = TermStatus(wres[w], error_message[w], wmsg[w])
    /\ lastpct' = [lastpct EXCEPT ![w] = progress]
    /\ wpc' = [wpc EXCEPT ![w] =
                 IF ForcesProgress(wres[w]) THEN "term_progress" ELSE "clear"]
    /\ UNCHANGED <<progress, is_downloading, uiv, nruns, files, wmsg, wres,
                   has_error, error_message, readerv, childv, ghostv, seen, outcome>>

WorkerTermProgress(w) ==
    /\ wpc[w] = "term_progress"
    /\ progress' = FullPercent
    /\ wpc' = [wpc EXCEPT ![w] = "clear"]
    /\ UNCHANGED <<status, is_downloading, uiv, nruns, files, wmsg, wres,
                   has_error, error_message, readerv, childv, ghostv, histv>>

\* line 308, and the end of the closure: the locals and the Child handle
\* are dropped.
WorkerClear(w) ==
    /\ wpc[w] = "clear"
    /\ is_downloading' = FALSE
    /\ clears' = [clears EXCEPT ![w] = @ + 1]
    /\ outcome' = [res |-> wres[w], log |-> seen[w], pct |-> lastpct[w],
                   exited |-> child[w].state = "exited", code |-> child[w].code]
    /\ seen' = [seen EXCEPT ![w] = << >>]
    /\ lastpct' = [lastpct EXCEPT ![w] = ZeroPercent]
    /\ wpc' = [wpc EXCEPT ![w] = "done"]
    /\ wmsg' = [wmsg EXCEPT ![w] = ""]
    /\ wres' = [wres EXCEPT ![w] = "none"]
    /\ has_error' = [has_error EXCEPT ![w] = FALSE]
    /\ error_message' = [error_message EXCEPT ![w] = ""]
    /\ child' = [child EXCEPT ![w] = NoChild]
    /\ UNCHANGED <<status, progress, uiv, nruns, files, readerv, outpipe,
                   errpipe, sets>>

(***************************************************************************)
(* The stdout reader thread (main.rs 246-268).                             *)
(***************************************************************************)

\* Mutation of StdoutDrainEnabled: stdout is drained only once the stderr
\* loop has ended (one thread draining the streams one after the other).
StdoutDrainAfterStderr(w) == wpc[w] # "stderr"

\* The reader is a thread of its own: it consumes stdout whatever the
\* worker is doing.
StdoutDrainEnabled(w) == TRUE

\* Mutation of ReaderNext: the phrases are matched only when the line gave
\* no percentage.
ReaderNextEither(line, donePc) ==
    IF donePc = "read" /\ parse_progress(line).some THEN "progress"
    ELSE IF donePc = "read" /\ StatusPhrase(line).some THEN "status"
    ELSE "read"

\* The reader's position after it has taken the locks in `done` for a line:
\* the progress lock only if parse_progress yields a value (line 251), the
\* status lock only if a phrase matches (lines 256-265).
ReaderNext(line, donePc) ==
    IF donePc = "read" /\ parse_progress(line).some THEN "progress"
    ELSE IF donePc \in {"read", "progress"} /\ StatusPhrase(line).some THEN "status"
    ELSE "read"

\* reader.lines() yields the next line (line 248).
ReaderReadLine(w) ==
    /\ rpc[w] = "read"
    /\ StdoutDrainEnabled(w)
    /\ outpipe[w] # << >>
    /\ LET line == Head(outpipe[w])
           pc   == ReaderNext(line, "read")
       IN  /\ rline' = [rline EXCEPT ![w] = IF pc = "read" THEN "" ELSE line]
           /\ rpc' = [rpc EXCEPT ![w] = pc]
    /\ outpipe' = [outpipe EXCEPT ![w] = Tail(@)]
    /\ UNCHANGED <<shared, uiv, nruns, files, workerv, child, errpipe,
                   ghostv, histv>>

\* reader.lines() ends at end-of-stream and the thread finishes.
ReaderEof(w) ==
    /\ rpc[w] = "read"
    /\ StdoutDrainEnabled(w)
    /\ outpipe[w] = << >>
    /\ ~child[w].out_open
    /\ rpc' = [rpc EXCEPT ![w] = "done"]
    /\ UNCHANGED <<shared, uiv, nruns, files, workerv, rline, childv,
                   ghostv, histv>>

\* lines 251-253
ReaderProgress(w) ==
    /\ rpc[w] = "progress"
    /\ progress' = parse_progress(rline[w]).val
    /\ LET pc == ReaderNext(rline[w], "progress") IN
       /\ rpc' = [rpc EXCEPT ![w] = pc]
       /\ rline' = [rline EXCEPT ![w] = IF pc = "read" THEN "" ELSE @]
    /\ UNCHANGED <<status, is_downloading, uiv, nruns, files, workerv,
                   childv, ghostv, histv>>

\* lines 256-265
ReaderStatus(w) ==
    /\ rpc[w] = "status"
    /\ status' = StatusPhrase(rline[w]).val
    /\ rpc' = [rpc EXCEPT ![w] = "read"]
    /\ rline' = [rline EXCEPT ![w] = ""]
    /\ UNCHANGED <<progress, is_downloading, uiv, nruns, files, workerv,
                   childv, ghostv, histv>>

(***************************************************************************)
(* The child process (the downloader executable) and its two pipes.        *)
(***************************************************************************)

Pipe(w, stream) == IF stream = "out" THEN outpipe[w] ELSE errpipe[w]

StreamOpen(w, stream) ==
    IF stream = "out" THEN child[w].out_open ELSE child[w].err_open

StreamLines(stream) == IF stream = "out" THEN StdoutLines ELSE StderrLines

\* A pipe append: the line enters the buffer of the stream it is written to.
PipeAppend(w, stream, line) ==
    /\ outpipe' = IF stream = "out"
                  THEN [outpipe EXCEPT ![w] = Append(@, line)] ELSE outpipe
    /\ errpipe' = IF stream = "err"
                  THEN [errpipe EXCEPT ![w] = Append(@, line)] ELSE errpipe

\* The child writes a line: it enters the pipe, or the write blocks on a
\* full pipe until a reader makes room.
ChildWrite(w, stream, line) ==
    /\ child[w].state = "running"
    /\ child[w].pending = << >>
    /\ StreamOpen(w, stream)
    /\ child[w].written < MaxLines
    /\ IF Len(Pipe(w, stream)) < PipeCap
       THEN /\ PipeAppend(w, stream, line)
            /\ child' = [child EXCEPT ![w].written = @ + 1]
       ELSE /\ child' = [child EXCEPT ![w].written = @ + 1,
                                      ![w].pending = <<stream, line>>]
            /\ UNCHANGED <<outpipe, errpipe>>
    /\ UNCHANGED <<shared, uiv, nruns, files, workerv, readerv, ghostv, histv>>

\* A blocked write completes once the pipe has room.
ChildUnblock(w) ==
    /\ child[w].state = "running"
    /\ child[w].pending # << >>
    /\ Len(Pipe(w, child[w].pending[1])) < PipeCap
    /\ PipeAppend(w, child[w].pending[1], child[w].pending[2])
    /\ child' = [child EXCEPT ![w].pending = << >>]
    /\ UNCHANGED <<shared, uiv, nruns, files, workerv, readerv, ghostv, histv>>

\* The child closes one of its streams.
ChildClose(w, stream) ==
    /\ child[w].state = "running"
    /\ child[w].pending = << >>
    /\ StreamOpen(w, stream)
    /\ child' = IF stream = "out" THEN [child EXCEPT ![w].out_open = FALSE]
                ELSE [child EXCEPT ![w].err_open = FALSE]
    /\ UNCHANGED <<shared, uiv, nruns, files, workerv, readerv, outpipe,
                   errpipe, ghostv, histv>>

\* The child exits: its ends of both pipes are closed.
ChildExit(w, code) ==
    /\ child[w].state = "running"
    /\ child[w].pending = << >>
    /\ child' = [child EXCEPT ![w] =
                   [state |-> "exited", out_open |-> FALSE, err_open |-> FALSE,
                    written |-> 0, pending |-> << >>, code |-> code]]
    /\ UNCHANGED <<shared, uiv, nruns, files, workerv, readerv, outpipe,
                   errpipe, ghostv, histv>>

(***************************************************************************)
(* Specifications.                                                         *)
(***************************************************************************)

UiStep ==
    \/ UiReadProgress
    \/ UiReadStatus
    \/ UiReadFlag
    \/ UiNoClick
    \/ UiClickEmpty
    \/ UiClickStart
    \/ SdSetFlag
    \/ SdSetStatus
    \/ SdSpawn

WorkerStep(w) ==
    \/ WorkerPrepare(w)
    \/ \E i \in 1..Len(ExtractPc) : WorkerExtract(w, i)
    \/ WorkerErrStatus(w)
    \/ WorkerErrClear(w)
    \/ WorkerDownloading(w)
    \/ WorkerSpawn(w)
    \/ WorkerStartReader(w)
    \/ WorkerReadStderr(w)
    \/ WorkerStderrEof(w)
    \/ WorkerJoin(w)
    \/ WorkerWait(w)
    \/ WorkerTermStatus(w)
    \/ WorkerTermProgress(w)
    \/ WorkerClear(w)

ReaderStep(w) ==
    \/ ReaderReadLine(w)
    \/ ReaderEof(w)
    \/ ReaderProgress(w)
    \/ ReaderStatus(w)

\* A step of the child, which writes lines of outs to stdout and of errs to
\* stderr.
ChildStep(w, outs, errs) ==
    \/ \E line \in outs : ChildWrite(w, "out", line)
    \/ \E line \in errs : ChildWrite(w, "err", line)
    \/ ChildUnblock(w)
    \/ \E stream \in {"out", "err"} : ChildClose(w, stream)
    \/ \E code \in ExitCodes : ChildExit(w, code)

NextOn(outs, errs) ==
    \/ UiStep
    \/ \E w \in Runs : WorkerStep(w)
    \/ \E w \in Runs : ReaderStep(w)
    \/ \E w \in Runs : ChildStep(w, outs, errs)

Next == NextOn(StdoutLines, StderrLines)

Spec == Init /\ [][Next]_vars

\* The scheduling properties do not depend on what the lines say: they are
\* checked with a child that writes one kind of line to each stream.
FairStdoutLines == {"[Merger] Merging formats into \"x.mp4\""}

FairStderrLines == {"ERROR: network unreachable"}

FairNext == NextOn(FairStdoutLines, FairStderrLines)

\* The threads are scheduled fairly: the worker, its stdout reader, the UI
\* thread inside start_download; and the child runs on: it completes a
\* write once the pipe has room, and eventually closes its streams and exits.
Fairness ==
    /\ WF_vars(SdSetFlag \/ SdSetStatus \/ SdSpawn)
    /\ \A w \in Runs : WF_vars(WorkerStep(w))
    /\ \A w \in Runs : WF_vars(ReaderStep(w))
    /\ \A w \in Runs : WF_vars(ChildStep(w, FairStdoutLines, FairStderrLines))

FairSpec == Init /\ [][FairNext]_vars /\ Fairness

\* The reader thread on one stdout line.  The line is built from the
\* downloader's markers and percentage tokens, set side by side with a
\* space or nothing between them; a form feed is one of the pieces, so a line
\* may separate two tokens by it.  An earlier line may have reported 50.0%.
MaxFragments == 3

Fragments ==
    { "[Merger]",
      "Merging formats into",
      "[ffmpeg]",
      "[ffmpeg] Converting video",
      "[ExtractAudio]",
      "[download]",
      "[download]  45.2% of 123.45MiB at 1.23MiB/s ETA 00:15",
      "ab%",
      "7.5%",
      "\f" }

Separators == {" ", ""}

LinesOf[n \in Nat] ==
    IF n <= 1 THEN Fragments
    ELSE {l \o sep \o f : l \in LinesOf[n - 1], sep \in Separators, f \in Fragments}

LineInputs == UNION {LinesOf[n] : n \in 1..MaxFragments}

PriorPercents == {ZeroPercent, FiftyPercent}

\* Run 1 after the child wrote a line to stdout: the state WorkerStartReader
\* and ChildWrite lead to.
LineInit ==
    /\ url = "https://youtu.be/v"
    /\ status = "Downloading..."
    /\ progress \in PriorPercents
    /\ is_downloading = TRUE
    /\ ui_pc = "idle"
    /\ f_progress = ZeroPercent
    /\ f_status = ""
    /\ f_downloading = FALSE
    /\ nruns = 1
    /\ files = {Executables[i] : i \in 1..Len(Executables)}
    /\ wpc = [w \in Runs |-> IF w = 1 THEN "stderr" ELSE "unborn"]
    /\ wmsg = [w \in Runs |-> ""]
    /\ wres = [w \in Runs |-> "none"]
    /\ has_error = [w \in Runs |-> FALSE]
    /\ error_message = [w \in Runs |-> ""]
    /\ rpc = [w \in Runs |-> IF w = 1 THEN "read" ELSE "unborn"]
    /\ rline = [w \in Runs |-> ""]
    /\ child = [w \in Runs |->
                  IF w = 1
                  THEN [state |-> "running", out_open |-> TRUE, err_open |-> TRUE,
                        written |-> IF progress = ZeroPercent THEN 1 ELSE 2,
                        pending |-> << >>, code |-> 0]
                  ELSE NoChild]
    /\ \E line \in LineInputs :
         outpipe = [w \in Runs |-> IF w = 1 THEN <<line>> ELSE << >>]
    /\ errpipe = [w \in Runs |-> << >>]
    /\ sets = [w \in Runs |-> IF w = 1 THEN 1 ELSE 0]
    /\ clears = [w \in Runs |-> 0]
    /\ seen = [w \in Runs |-> << >>]
    /\ lastpct = [w \in Runs |-> ZeroPercent]
    /\ outcome = NoOutcome

LineNext ==
    \E w \in Runs :
        \/ ReaderReadLine(w)
        \/ ReaderProgress(w)
        \/ ReaderStatus(w)

LineSpec == LineInit /\ [][LineNext]_vars

(***************************************************************************)
(* Properties.                                                             *)
(***************************************************************************)

\* The ERROR lines of a stderr history, case-sensitively.
FatalIndexes(log) ==
    {i \in 1..Len(log) : Contains(log[i], "ERROR")}

LastFatal(log) ==
    log[CHOOSE i \in FatalIndexes(log) : \A j \in FatalIndexes(log) : j <= i]

\* A worker thread, or its stdout reader, that still has writes to make.
WorkerLive(w) ==
    \/ wpc[w] \notin {"unborn", "done"}
    \/ rpc[w] \in {"read", "progress", "status"}

\* C1: every run whose in-progress flag was set eventually clears it,
\* whichever path the worker takes, given fair scheduling and a child that
\* closes its streams and exits.
C1_EveryRunClearsFlag ==
    \A w \in Runs : (sets[w] > 0) ~> (clears[w] > 0 /\ wpc[w] = "done")

C1_Witness ==
    \E w \in Runs : sets[w] > 0 /\ clears[w] > 0 /\ outcome.res = "failed"

\* C2: after a successful exit the final status is "Download complete!" and
\* the final progress is 100.0, whatever progress was before and whatever
\* stderr held.
C2_SuccessIsComplete ==
    (outcome.exited /\ outcome.code = 0 /\ outcome.res # "waiterr")
        => (status = "Download complete!" /\ progress = FullPercent)

C2_Witness ==
    /\ outcome.exited /\ outcome.code = 0 /\ outcome.res # "waiterr"
    /\ outcome.pct = FiftyPercent
    /\ FatalIndexes(outcome.log) # {}

\* C3: after a non-zero exit the final status is "Download failed: <L>" with
\* L the last stderr line read that contains "ERROR", and without such a
\* line it is "Download completed with warnings" with progress 100.0.
C3_FailureStatus ==
    (outcome.exited /\ outcome.code # 0 /\ outcome.res # "waiterr")
        => IF FatalIndexes(outcome.log) # {}
           THEN status = "Download failed: " \o LastFatal(outcome.log)
           ELSE /\ status = "Download completed with warnings"
                /\ progress = FullPercent

C3_Witness ==
    /\ outcome.exited /\ outcome.code # 0 /\ outcome.res # "waiterr"
    /\ outcome.log = <<"ERROR: Video unavailable", "ERROR: network unreachable">>
    /\ status = "Download failed: ERROR: network unreachable"

\* C4: in every run the flag is set to true exactly once and cleared exactly
\* once: never twice, and a worker that has returned has cleared it.
C4_SetOnceClearedOnce ==
    \A w \in Runs :
        /\ sets[w] <= 1
        /\ clears[w] <= sets[w]
        /\ (wpc[w] # "unborn" => sets[w] = 1)
        /\ (wpc[w] = "done" => clears[w] = 1)
        /\ (wpc[w] # "done" => clears[w] = 0)

C4_Witness ==
    /\ \A w \in Runs : wpc[w] = "done" /\ sets[w] = 1 /\ clears[w] = 1
    /\ outcome.res = "launch"

\* C5 as stated: whenever a run has ended, progress is 100.0.
C5_Original ==
    outcome.res # "none" => progress = FullPercent

\* C5 amended: when a run has ended in the exit-success branch or in the
\* non-zero-exit branch without a captured ERROR line, progress is 100.0.
C5_ForcedOnSuccessAndWarnings ==
    outcome.res \in {"success", "warnings"} => progress = FullPercent

C5_Witness ==
    outcome.res = "warnings" /\ outcome.pct = FiftyPercent /\ progress = FullPercent

\* C6: a frame that has read a completion status and still draws the bar
\* (it read the flag as true) draws it with progress 100.0.
C6_FrameNotStale ==
    ( /\ ui_pc = "button"
      /\ f_status \in {"Download complete!", "Download completed with warnings"}
      /\ f_downloading )
        => f_progress = FullPercent

\* C7: the shared progress value always lies in [0, 100].
C7_ProgressInRange ==
    F32Le(ZeroPercent, progress) /\ F32Le(progress, FullPercent)

\* C8: at most one worker (with its reader) has writes to make at any time,
\* and none has while start_download is resetting the shared state.
C8_OneWorkerAtATime ==
    /\ Cardinality({w \in Runs : WorkerLive(w)}) <= 1
    /\ (ui_pc \in {"sd_flag", "sd_status", "sd_spawn"}
          => \A w \in Runs : ~WorkerLive(w))

C8_Witness ==
    /\ nruns = 2
    /\ wpc[1] = "done"
    /\ wpc[2] = "term_status"
    /\ ui_pc = "button" /\ f_downloading

\* C9: the worker publishes its terminal status and progress only after
\* stderr has ended and the stdout reader has finished, and from then on
\* the reader makes no update to status or progress.
C9_TerminalAfterDrains ==
    /\ [](\A w \in Runs :
            wpc[w] \in {"wait", "term_status", "term_progress", "clear"}
                => /\ rpc[w] = "done"
                   /\ outpipe[w] = << >> /\ errpipe[w] = << >>
                   /\ ~child[w].out_open /\ ~child[w].err_open)
    /\ [][\A w \in Runs :
            wpc[w] \in {"term_progress", "clear", "done"}
                => ~(ReaderProgress(w) \/ ReaderStatus(w))]_vars

C9_Witness ==
    \E w \in Runs :
        /\ wpc[w] = "clear"
        /\ rpc[w] = "done"
        /\ lastpct[w] = MergePercent
        /\ status = "Download failed: ERROR: Video unavailable"

\* C10: a child blocked in a write on a full pipe is eventually unblocked,
\* whichever stream it is and whatever the other reader is doing.
C10_NeverBlockedForever ==
    \A w \in Runs : (child[w].pending # << >>) ~> (child[w].pending = << >>)

C10_Witness ==
    \E w \in Runs :
        /\ child[w].pending # << >>
        /\ child[w].pending[1] = "out"
        /\ wpc[w] = "stderr"
        /\ child[w].err_open

\* C11: a call of start_download with an empty URL starts no run: the UI
\* thread never enters the reset of a run with an empty URL, and the call
\* sets the status to "Please enter a URL", spawns no worker, finds and
\* leaves the flag false and leaves progress as it was.
C11_EmptyUrlStartsNothing ==
    /\ [](ui_pc \in {"sd_flag", "sd_status", "sd_spawn"} => url # "")
    /\ [][((UiClickEmpty \/ UiClickStart) /\ url = "")
            => /\ ui_pc' = "idle"
               /\ status' = "Please enter a URL"
               /\ ~is_downloading /\ ~is_downloading'
               /\ progress' = progress
               /\ url' = url /\ nruns' = nruns /\ wpc' = wpc /\ sets' = sets]_vars

C11_Witness ==
    /\ url = "" /\ status = "Please enter a URL"
    /\ nruns = 1 /\ wpc[1] = "done"
    /\ ~is_downloading
    /\ progress = FiftyPercent

\* The statuses a launch failure publishes.
LaunchTexts == {"Failed to start yt-dlp: " \o e : e \in SpawnErrors}

\* C12: a worker whose launch failed only publishes the OS error text and
\* clears the flag: it has no reader, no child and no wait result, it does
\* not launch again, and the run ends with that status, the flag false and
\* progress as start_download had reset it.
C12_LaunchFailureEndsRun ==
    /\ \A w \in Runs :
         wmsg[w] \in LaunchTexts
            => /\ wpc[w] \in {"err_status", "err_clear"}
               /\ rpc[w] = "unborn" /\ child[w] = NoChild /\ wres[w] = "none"
               /\ (wpc[w] = "err_clear" => status = wmsg[w])
               /\ is_downloading /\ clears[w] = 0
               /\ progress = ZeroPercent
    /\ outcome.res = "launch"
            => /\ wpc[nruns] = "done"
               /\ rpc[nruns] = "unborn" /\ child[nruns] = NoChild
               /\ status \in LaunchTexts
               /\ ~is_downloading /\ clears[nruns] = 1
               /\ progress = ZeroPercent

C12_Witness ==
    /\ outcome.res = "launch"
    /\ nruns = 2 /\ wpc[2] = "done" /\ rpc[1] = "done"
    /\ status = "Failed to start yt-dlp: program not found"
    /\ ~is_downloading

\* Reader w takes the next stdout line; reader w makes its progress write.
Takes(w) ==
    rpc[w] = "read" /\ outpipe[w] # << >> /\ Len(outpipe'[w]) < Len(outpipe[w])

WritesProgress(w) == rpc[w] = "progress" /\ rpc'[w] # "progress"

\* The positions in a line's tokens of those that end in '%' and whose text
\* before the trailing '%' signs is a number.
PercentTokens(line) ==
    LET toks == SplitWhitespace(line)
    IN  {i \in 1..Len(toks) :
            EndsWith(toks[i], "%") /\ ParseF32[TrimEndMatches[toks[i], "%"]].some}

\* What the claim says a line yields: the precedence of the three patterns,
\* and the first token of PercentTokens for the third.
C13_Yield(line) ==
    LET toks  == SplitWhitespace(line)
        good  == PercentTokens(line)
        first == CHOOSE i \in good : \A j \in good : i <= j
    IN  IF Contains(line, "[Merger]") \/ Contains(line, "Merging formats into")
        THEN Some(MergePercent)
        ELSE IF Contains(line, "[ffmpeg]") THEN Some(FfmpegPercent)
        ELSE IF Contains(line, "[download]") /\ Contains(line, "%") /\ good # {}
        THEN ParseF32[TrimEndMatches[toks[first], "%"]]
        ELSE None

\* C13: for every line the reader takes, it writes progress exactly when the
\* precedence of the patterns yields a value for the line, it writes that
\* value whatever progress was before, and progress changes in no other way
\* (a line that yields nothing leaves it as it was).
C13_ParsePrecedence ==
    [][/\ \A w \in Runs :
            /\ Takes(w)
                 => /\ (rpc'[w] = "progress") = C13_Yield(Head(outpipe[w])).some
                    /\ (rpc'[w] = "progress" => rline'[w] = Head(outpipe[w]))
            /\ WritesProgress(w) => progress' = C13_Yield(rline[w]).val
       /\ progress' # progress => \E w \in Runs : WritesProgress(w)]_vars

C13_Witness ==
    /\ rpc[1] = "progress"
    /\ rline[1] = "ab% [download] 7.5%"
    /\ progress = FiftyPercent

ConvertingText == "[ffmpeg] Converting video"

\* C14 as stated: every line containing "[ffmpeg] Converting video" yields
\* 99.5.
C14_Original ==
    [][\A w \in Runs :
         /\ (Takes(w) /\ Contains(Head(outpipe[w]), ConvertingText))
               => rpc'[w] = "progress"
         /\ (WritesProgress(w) /\ Contains(rline[w], ConvertingText))
               => progress' = FfmpegPercent]_vars

C14_Covers(line) ==
    /\ Contains(line, ConvertingText)
    /\ ~Contains(line, "[Merger]")
    /\ ~Contains(line, "Merging formats into")

\* C14 amended: every line containing "[ffmpeg] Converting video" and
\* neither "[Merger]" nor "Merging formats into" yields 99.5, whatever else
\* it contains.
C14_ConvertingYields995 ==
    [][\A w \in Runs :
         /\ (Takes(w) /\ C14_Covers(Head(outpipe[w])))
               => rpc'[w] = "progress"
         /\ (WritesProgress(w) /\ C14_Covers(rline[w]))
               => progress' = FfmpegPercent]_vars

C14_Witness ==
    /\ rpc[1] = "status"
    /\ rline[1] = "[download]  45.2% of 123.45MiB at 1.23MiB/s ETA 00:15 [ffmpeg] Converting video"
    /\ progress = FfmpegPercent

DownloadText == "[download]  45.2% of 123.45MiB at 1.23MiB/s ETA 00:15"

\* C15 as stated: every line containing the [download] 45.2% text yields 45.2.
C15_Original ==
    [][\A w \in Runs :
         /\ (Takes(w) /\ Contains(Head(outpipe[w]), DownloadText))
               => rpc'[w] = "progress"
         /\ (WritesProgress(w) /\ Contains(rline[w], DownloadText))
               => progress' = DownloadPercent]_vars

\* The text of a line up to the "[download]" of its first DownloadText.
UpToDownload(line) ==
    LET at == CHOOSE i \in 1..Len(line) :
                /\ SubSeq(line, i, i + Len(DownloadText) - 1) = DownloadText
                /\ \A j \in 1..(i - 1) :
                     SubSeq(line, j, j + Len(DownloadText) - 1) # DownloadText
    IN  SubSeq(line, 1, at + Len("[download]") - 1)

C15_Covers(line) ==
    /\ Contains(line, DownloadText)
    /\ ~Contains(line, "[Merger]")
    /\ ~Contains(line, "Merging formats into")
    /\ ~Contains(line, "[ffmpeg]")
    /\ PercentTokens(UpToDownload(line)) = {}

\* C15 amended: a line containing the [download] 45.2% text yields 45.2 when
\* it contains none of "[Merger]", "Merging formats into" and "[ffmpeg]" and
\* no token before the 45.2% ends in '%' after a number.
C15_DownloadYields452 ==
    [][\A w \in Runs :
         /\ (Takes(w) /\ C15_Covers(Head(outpipe[w])))
               => rpc'[w] = "progress"
         /\ (WritesProgress(w) /\ C15_Covers(rline[w]))
               => progress' = DownloadPercent]_vars

C15_Witness ==
    /\ rpc[1] = "status"
    /\ rline[1] = "ab% [download]  45.2% of 123.45MiB at 1.23MiB/s ETA 00:15 [ExtractAudio]"
    /\ progress = DownloadPercent

\* The phase phrases in the order the claim gives them.
PhaseTable ==
    << [marks |-> {"[Merger]"},               says |-> "Merging audio and video..."],
       [marks |-> {"[ExtractAudio]"},         says |-> "Extracting audio..."],
       [marks |-> {"[ffmpeg]", "Merging"},    says |-> "Merging streams..."],
       [marks |-> {"[ffmpeg]", "Converting"}, says |-> "Converting to MP4..."] >>

C16_Phrase(line) ==
    LET hits  == {i \in 1..Len(PhaseTable) :
                    \A m \in PhaseTable[i].marks : Contains(line, m)}
        first == CHOOSE i \in hits : \A j \in hits : i <= j
    IN  IF hits = {} THEN None ELSE Some(PhaseTable[first].says)

\* C16: for every line the reader takes, it writes the status once, with the
\* first phrase of the table whose marks the line contains, whether or not
\* it wrote progress for the line before; for a line with no such phrase it
\* does not write the status; and the status changes in no other way.
C16_PhasePhrases ==
    [][/\ \A w \in Runs :
            /\ Takes(w)
                 => /\ status' = status
                    /\ (rpc'[w] = "read") => ~C16_Phrase(Head(outpipe[w])).some
                    /\ (rpc'[w] = "status") => C16_Phrase(Head(outpipe[w])).some
                    /\ (rpc'[w] # "read") => rline'[w] = Head(outpipe[w])
            /\ WritesProgress(w)
                 => /\ status' = status
                    /\ rpc'[w] = (IF C16_Phrase(rline[w]).some THEN "status" ELSE "read")
            /\ (rpc[w] = "status" /\ rpc'[w] # "status")
                 => /\ status' = C16_Phrase(rline[w]).val
                    /\ progress' = progress
                    /\ rpc'[w] = "read"
       /\ status' # status => \E w \in Runs : rpc[w] = "status"]_vars

C16_Witness ==
    /\ rpc[1] = "read" /\ outpipe[1] = << >>
    /\ status = "Extracting audio..."
    /\ progress = FiftyPercent

\* The branches that end a run in "Download failed: ..." or "Process error: ...".
FailureBranches == {"failed", "waiterr"}

StartsWith(s, p) == Len(s) >= Len(p) /\ SubSeq(s, 1, Len(p)) = p

\* C17: a worker in a failure branch writes its status and clears the flag
\* without a progress write: from the end of its stdout reader to its return
\* no step changes progress, and the run ends with the flag false and
\* progress as the reader left it.
C17_FailureKeepsProgress ==
    /\ [](\A w \in Runs :
            wres[w] \in FailureBranches
               => wpc[w] \in {"term_status", "clear"} /\ rpc[w] = "done")
    /\ [](outcome.res \in FailureBranches
               => /\ ~is_downloading /\ wpc[nruns] = "done"
                  /\ progress = outcome.pct
                  /\ \/ StartsWith(status, "Download failed: ")
                     \/ StartsWith(status, "Process error: "))
    /\ [][\A w \in Runs :
            (rpc[w] = "done" /\ wpc[w] \notin {"done", "term_progress"})
               => progress' = progress]_vars

C17_Witness ==
    /\ outcome.res = "failed"
    /\ status = "Download failed: ERROR: Video unavailable"
    /\ progress = FiftyPercent
    /\ ~is_downloading

TransientStatuses ==
    { "Starting download...", "Preparing...", "Downloading...",
      "Merging audio and video...", "Extracting audio...",
      "Merging streams...", "Converting to MP4..." }

SettledStatus(s) ==
    \/ s \in {"Ready", "Please enter a URL", "Download complete!",
              "Download completed with warnings"}
    \/ \E p \in {"Download failed: ", "Process error: ",
                 "Failed to start yt-dlp: ", "Failed to extract "} :
         StartsWith(s, p)

\* C18: whenever the flag is false the status is "Ready", "Please enter a
\* URL" or the terminal message of a run, never a transient one.
C18_IdleStatusSettled ==
    ~is_downloading => (SettledStatus(status) /\ status \notin TransientStatuses)

C18_Witness ==
    /\ ~is_downloading
    /\ outcome.res = "extract"
    /\ status = "Failed to extract deno: Access is denied. (os error 5)"
    /\ nruns = 2

====
